---- MODULE Spec2Model ----
(***************************************************************************)
(* FastMQTT (fastapi_mqtt/fastmqtt.py): an adapter around a gmqtt client.  *)
(* The model covers the constructor's mapping of the configuration onto    *)
(* the client, connection(), the four callback registration decorators,    *)
(* the engine's delivery of events to the registered callbacks, and the    *)
(* publish / unsubscribe bridge onto the adapter's thread pool, together   *)
(* with the application's shutdown hook of examples/app.py.                *)
(*                                                                         *)
(* Python's Optional values are modelled as sequences of length at most    *)
(* one: None is <<>>, a present value x is <<x>>.  Python truthiness       *)
(* (`if x:`, `x or y`) is modelled by TruthyStr / TruthyInt: None, the     *)
(* empty string and 0 are falsy.                                           *)
(***************************************************************************)
EXTENDS Integers, Sequences, FiniteSets, TLC

VARIABLES
    config,      \* the MQQTConfig handed to FastMQTT(...)
    client,      \* self.client: the attributes the adapter sets on the gmqtt client
    phase,       \* "unbuilt" before FastMQTT.__init__ has run, "built" after
    calls,       \* the calls made on the underlying gmqtt client, in order
    nconn,       \* number of completed connection() invocations
    error,       \* the exception the last adapter operation raised, or "none"
    registered,  \* per event kind, the handlers registered so far, in order (history)
    events,      \* the events the engine delivered: kind, callback invoked, raised
    ops,         \* the publish / unsubscribe calls made on the adapter
    shutdown     \* TRUE once the application's shutdown hook has run

vars == <<config, client, phase, calls, nconn, error, registered, events, ops, shutdown>>

----------------------------------------------------------------------------
(* Bounds of the model *)

MaxConnections == 2
MaxRegistrations == 3
MaxEvents == 2
MaxOps == 2

----------------------------------------------------------------------------
(* Python values *)

None == <<>>
Some(x) == <<x>>

\* bool(x) for an Optional[str]
TruthyStr(v) == v # None /\ v[1] # ""

\* bool(x) for an Optional[int]
TruthyInt(v) == v # None /\ v[1] # 0

\* `x or None` for an Optional[str]
OrNone(v) == IF TruthyStr(v) THEN v ELSE None

Max(S) == CHOOSE x \in S : \A y \in S : y <= x

\* gmqtt.mqtt.constants
MQTTv311 == 4
MQTTv50 == 5

----------------------------------------------------------------------------
(* The configuration record: the fields fastmqtt.py reads from `config` *)

OptStrings(S) == {None} \cup {Some(s) : s \in S}
OptInts(S) == {None} \cup {Some(n) : n \in S}

Configs ==
    [host : {"localhost", "broker"},
     port : {1883},
     ssl : BOOLEAN,
     keepalive : {60},
     username : OptStrings({"", "user"}),
     password : OptStrings({"", "pw"}),
     version : OptInts({MQTTv311, MQTTv50}),
     reconnect_retries : OptInts({0, 3}),
     reconnect_delay : OptInts({0, 6}),
     will_message_topic : OptStrings({"will/t"}),
     will_message_payload : OptStrings({"", "bye"}),
     will_delay_interval : OptInts({0, 5})]

\* MQQTConfig() of examples/app.py: host and port only, everything else absent
DefaultConfig ==
    [host |-> "localhost", port |-> 1883, ssl |-> FALSE, keepalive |-> 60,
     username |-> None, password |-> None, version |-> None,
     reconnect_retries |-> None, reconnect_delay |-> None,
     will_message_topic |-> None, will_message_payload |-> None,
     will_delay_interval |-> None]

----------------------------------------------------------------------------
(* FastMQTT.__init__ *)

\* the callback a freshly constructed gmqtt client holds in every slot
EmptyCallback == "empty_callback"
NotCallable == "None"

Kinds == {"connect", "message", "disconnect", "subscribe"}
Handlers == {"h1", "h2"}

Callable(h) == h # NotCallable

\* a mutant of InitialCallbacks: the constructor clears the message slot
InitialCallbacksCleared ==
    [connect |-> EmptyCallback, message |-> NotCallable,
     disconnect |-> EmptyCallback, subscribe |-> EmptyCallback]

\* MQTTClient(client_id): __init__ assigns no callback, each slot keeps the
\* engine's default
InitialCallbacks ==
    [connect |-> EmptyCallback, message |-> EmptyCallback,
     disconnect |-> EmptyCallback, subscribe |-> EmptyCallback]

\* a mutant of WillCondition: any one field suffices
WillConditionAny(cfg) ==
    \/ TruthyStr(cfg.will_message_topic)
    \/ TruthyStr(cfg.will_message_payload)
    \/ TruthyInt(cfg.will_delay_interval)

\* line 77: `if topic and payload and delay:` is a truthiness test
WillCondition(cfg) ==
    /\ TruthyStr(cfg.will_message_topic)
    /\ TruthyStr(cfg.will_message_payload)
    /\ TruthyInt(cfg.will_delay_interval)

\* Message(topic, payload, will_delay_interval), by its three positional arguments
Message(topic, payload, delay) == Some(<<topic, payload, delay>>)

WillMessage(cfg) ==
    IF WillCondition(cfg)
    THEN Message(cfg.will_message_topic, cfg.will_message_payload,
                 cfg.will_delay_interval)
    ELSE None

NewClient(cfg) ==
    [_username |-> OrNone(cfg.username),
     _password |-> OrNone(cfg.password),
     _host |-> cfg.host,
     _port |-> cfg.port,
     _keepalive |-> cfg.keepalive,
     _ssl |-> cfg.ssl,
     _will_message |-> WillMessage(cfg),
     callbacks |-> InitialCallbacks]

NoClient ==
    [_username |-> None, _password |-> None, _host |-> "", _port |-> 0,
     _keepalive |-> 0, _ssl |-> FALSE, _will_message |-> None,
     callbacks |-> InitialCallbacks]

Construct ==
    /\ phase = "unbuilt"
    /\ client' = NewClient(config)
    /\ phase' = "built"
    /\ error' = "none"
    /\ UNCHANGED <<config, calls, nconn, registered, events, ops, shutdown>>

----------------------------------------------------------------------------
(* FastMQTT.connection *)

Call(op, args) == [op |-> op, args |-> args]

\* lines 89-90
AuthCalls(cl) ==
    IF TruthyStr(cl._username)
    THEN <<Call("set_auth_credentials", <<cl._username, cl._password>>)>>
    ELSE <<>>

\* __set_connetion_config, lines 108-112
ConfigCalls(cfg) ==
    (IF TruthyInt(cfg.reconnect_retries)
     THEN <<Call("set_config", <<"reconnect_retries", cfg.reconnect_retries[1]>>)>>
     ELSE <<>>)
    \o
    (IF TruthyInt(cfg.reconnect_delay)
     THEN <<Call("set_config", <<"reconnect_delay", cfg.reconnect_delay[1]>>)>>
     ELSE <<>>)

\* a mutant of Version: the default is the older protocol
VersionOld(cfg) == IF TruthyInt(cfg.version) THEN cfg.version[1] ELSE MQTTv311

\* line 95: `self.config.version or MQTTv50`
Version(cfg) == IF TruthyInt(cfg.version) THEN cfg.version[1] ELSE MQTTv50

\* line 98
ConnectCall(cl, cfg) ==
    <<Call("connect", <<cl._host, cl._port, cl._ssl, cl._keepalive, Version(cfg)>>)>>

\* a mutant of ConnectionCalls: the credentials are set after connecting
ConnectionCallsAuthLast(cl, cfg) ==
    ConfigCalls(cfg) \o ConnectCall(cl, cfg) \o AuthCalls(cl)

\* the calls connection() makes on the client, in program order
ConnectionCalls(cl, cfg) ==
    AuthCalls(cl) \o ConfigCalls(cfg) \o ConnectCall(cl, cfg)

\* what the engine's connect may raise; connection() lets it through
ConnectOutcomes == {"none", "ConnectionRefusedError"}

Connection ==
    /\ phase = "built"
    /\ ~shutdown
    /\ nconn < MaxConnections
    /\ calls' = calls \o ConnectionCalls(client, config)
    /\ nconn' = nconn + 1
    /\ \E e \in ConnectOutcomes : error' = e
    /\ UNCHANGED <<config, client, phase, registered, events, ops, shutdown>>

----------------------------------------------------------------------------
(* Specification of construction and connection over every configuration *)

NoHistory == [k \in Kinds |-> <<>>]

InitConfig ==
    /\ config \in Configs
    /\ client = NoClient
    /\ phase = "unbuilt"
    /\ calls = <<>>
    /\ nconn = 0
    /\ error = "none"
    /\ registered = NoHistory
    /\ events = <<>>
    /\ ops = <<>>
    /\ shutdown = FALSE

NextConfig == Construct \/ Connection

SpecConfig == InitConfig /\ [][NextConfig]_vars

----------------------------------------------------------------------------
(* The registration decorators on_connect, on_message, on_subscribe and
   on_disconnect: each stores the handler in its own slot of the client *)

Last(s) == s[Len(s)]

Registrations ==
    Len(registered["connect"]) + Len(registered["message"])
       + Len(registered["disconnect"]) + Len(registered["subscribe"])

\* `self.client.on_<kind> = handler`, and the history of what was registered
Register(kind, h) ==
    /\ phase = "built"
    /\ Registrations < MaxRegistrations
    /\ client' = [client EXCEPT !.callbacks[kind] = h]
    /\ registered' = [registered EXCEPT ![kind] = Append(@, h)]
    /\ UNCHANGED <<config, phase, calls, nconn, error, events, ops, shutdown>>

on_connect(h) == Register("connect", h)

on_message(h) == Register("message", h)

\* a mutant of on_subscribe: the handler lands in the message slot
on_subscribe_into_message(h) ==
    /\ phase = "built"
    /\ Registrations < MaxRegistrations
    /\ client' = [client EXCEPT !.callbacks["message"] = h]
    /\ registered' = [registered EXCEPT !["subscribe"] = Append(@, h)]
    /\ UNCHANGED <<config, phase, calls, nconn, error, events, ops, shutdown>>

on_subscribe(h) == Register("subscribe", h)

on_disconnect(h) == Register("disconnect", h)

\* The engine delivers an event of a kind: it calls whatever the slot holds.
\* Calling a slot that holds no callable raises.
Deliver(kind) ==
    /\ phase = "built"
    /\ Len(events) < MaxEvents
    /\ events' = Append(events,
                        [kind |-> kind,
                         handler |-> client.callbacks[kind],
                         raised |-> ~Callable(client.callbacks[kind])])
    /\ UNCHANGED <<config, client, phase, calls, nconn, error, registered, ops,
                   shutdown>>

InitBuilt ==
    /\ config = DefaultConfig
    /\ client = NewClient(DefaultConfig)
    /\ phase = "built"
    /\ calls = <<>>
    /\ nconn = 0
    /\ error = "none"
    /\ registered = NoHistory
    /\ events = <<>>
    /\ ops = <<>>
    /\ shutdown = FALSE

NextCallbacks ==
    \/ \E h \in Handlers : on_connect(h)
    \/ \E h \in Handlers : on_message(h)
    \/ \E h \in Handlers : on_subscribe(h)
    \/ \E h \in Handlers : on_disconnect(h)
    \/ \E k \in Kinds : Deliver(k)

SpecCallbacks == InitBuilt /\ [][NextCallbacks]_vars

----------------------------------------------------------------------------
(* publish and unsubscribe: the bridge onto self.executor, and the worker *)

\* the names bound at module scope of fastmqtt.py (its imports, log_info,
\* logger and the class)
ModuleGlobals ==
    {"os", "ssl", "uuid", "asyncio", "SSLContext", "partial",
     "ThreadPoolExecutor", "Any", "Callable", "Dict", "Optional", "Type",
     "Union", "Message", "MQTTClient", "MQTTv311", "MQTTv50", "MQQTConfig",
     "logger", "log_info", "FastMQTT"}

\* the attributes __init__ binds on the adapter
SelfAttributes == {"client", "config", "executor", "loop"}

Topics == {"/t", "/mqtt"}
Payloads == {"hello"}
QoS == {0, 1}

\* what the client's synchronous call does when it is run
Behaviours == {"returned", "ConnectionError"}

\* an awaited call on the adapter: `bound` tells whether the loop it names
\* resolved; an unbound name raises NameError before anything is submitted
NewOp(op, args, behaviour, bound) ==
    [op |-> op, args |-> args, behaviour |-> behaviour,
     submitted |-> bound, ran |-> 0, result |-> "pending",
     got |-> IF bound THEN "pending" ELSE "NameError"]

\* line 147: `loop.run_in_executor(self.executor, func)`, `loop` a bare name
publish(topic, payload, qos, retain, b) ==
    /\ phase = "built"
    /\ ~shutdown
    /\ Len(ops) < MaxOps
    /\ ops' = Append(ops, NewOp("publish", <<topic, payload, qos, retain>>, b,
                                "loop" \in ModuleGlobals))
    /\ UNCHANGED <<config, client, phase, calls, nconn, error, registered,
                   events, shutdown>>

\* line 160: `self.loop.run_in_executor(self.executor, func)`
unsubscribe(topic, b) ==
    /\ phase = "built"
    /\ ~shutdown
    /\ Len(ops) < MaxOps
    /\ ops' = Append(ops, NewOp("unsubscribe", <<topic>>, b,
                                "loop" \in SelfAttributes))
    /\ UNCHANGED <<config, client, phase, calls, nconn, error, registered,
                   events, shutdown>>

\* a worker of the pool runs a submitted call, once; the pool imposes no order
RunTask(i) ==
    /\ ops[i].submitted
    /\ ops[i].ran = 0
    /\ calls' = Append(calls, Call(ops[i].op, ops[i].args))
    /\ ops' = [ops EXCEPT ![i].ran = 1, ![i].result = ops[i].behaviour]
    /\ UNCHANGED <<config, client, phase, nconn, error, registered, events,
                   shutdown>>

\* the loop resumes the awaiting caller with the call's result or exception
Resume(i) ==
    /\ ops[i].submitted
    /\ ops[i].result # "pending"
    /\ ops[i].got = "pending"
    /\ ops' = [ops EXCEPT ![i].got = ops[i].result]
    /\ UNCHANGED <<config, client, phase, calls, nconn, error, registered,
                   events, shutdown>>

\* examples/app.py, the shutdown hook: `await fast_mqtt.client.disconnect()`
Shutdown ==
    /\ phase = "built"
    /\ ~shutdown
    /\ shutdown' = TRUE
    /\ calls' = Append(calls, Call("disconnect", <<>>))
    /\ UNCHANGED <<config, client, phase, nconn, error, registered, events, ops>>

NextBridge ==
    \/ \E t \in Topics, p \in Payloads, q \in QoS, b \in Behaviours :
          publish(t, p, q, FALSE, b)
    \/ \E t \in Topics, b \in Behaviours : unsubscribe(t, b)
    \/ \E i \in 1..Len(ops) : RunTask(i)
    \/ \E i \in 1..Len(ops) : Resume(i)
    \/ Shutdown

SpecBridge == InitBuilt /\ [][NextBridge]_vars

----------------------------------------------------------------------------
(* The log of client calls, cut into one segment per connection() call *)

CallIdx(op) == {i \in 1..Len(calls) : calls[i].op = op}

ConnectIdx == CallIdx("connect")

\* the index of the connect call before call i, 0 when there is none
PrevConnect(i) ==
    LET S == {j \in ConnectIdx : j < i} IN IF S = {} THEN 0 ELSE Max(S)

\* the calls connection() made before its connect call at index i
Before(i) == (PrevConnect(i) + 1)..(i - 1)

\* the calls made after the last connect call
Trailing == {j \in 1..Len(calls) : \A i \in ConnectIdx : j > i}

AuthBefore(i) == {j \in Before(i) : calls[j].op = "set_auth_credentials"}

SetConfigBefore(i, key) ==
    {j \in Before(i) : calls[j].op = "set_config" /\ calls[j].args[1] = key}

----------------------------------------------------------------------------
(* C2 *)

\* C2, as stated: whenever username and password are both set (not None),
\* every connect call of connection() is preceded by a set_auth_credentials
\* call with that username and password; with no username no
\* set_auth_credentials call is made at all.
C2_AsStated ==
    /\ (config.username # None /\ config.password # None) =>
          \A i \in ConnectIdx :
             \E j \in AuthBefore(i) :
                calls[j].args = <<config.username, config.password>>
    /\ config.username = None => CallIdx("set_auth_credentials") = {}

\* C2, amended: whenever username and password are both non-empty strings,
\* every connect call of connection() is preceded, within the same
\* connection() call, by exactly one set_auth_credentials call with that
\* username and password, and none follows the connect call; with no
\* username (None or the empty string) no set_auth_credentials call is made.
C2_CredentialsBeforeConnect ==
    /\ (TruthyStr(config.username) /\ TruthyStr(config.password)) =>
          /\ \A i \in ConnectIdx :
                /\ Cardinality(AuthBefore(i)) = 1
                /\ \A j \in AuthBefore(i) :
                      calls[j].args = <<config.username, config.password>>
          /\ \A j \in Trailing : calls[j].op # "set_auth_credentials"
    /\ ~TruthyStr(config.username) => CallIdx("set_auth_credentials") = {}

C2_Witness ==
    /\ nconn >= 1
    /\ config.username = Some("user")
    /\ config.password = Some("pw")
    /\ calls[1] = Call("set_auth_credentials", <<Some("user"), Some("pw")>>)
    /\ ConnectIdx # {}

----------------------------------------------------------------------------
(* C3, C4 *)

AllWillSet(cfg) ==
    /\ cfg.will_message_topic # None
    /\ cfg.will_message_payload # None
    /\ cfg.will_delay_interval # None

\* C3: once the adapter is constructed from a configuration whose three
\* last-will fields are all set (a delay of 0 included), the client carries
\* a last-will message with exactly the configured topic, payload and delay.
C3_WillAttached ==
    (phase = "built" /\ AllWillSet(config)) =>
       client._will_message =
          Some(<<config.will_message_topic, config.will_message_payload,
                 config.will_delay_interval>>)

\* C4: when not all three last-will fields are set, the constructed adapter
\* carries no last-will message, before and after connection(); the
\* constructor raises nothing and connection() raises nothing but what the
\* engine's connect raised.
C4_NoPartialWill ==
    (phase = "built" /\ ~AllWillSet(config)) =>
       /\ client._will_message = None
       /\ nconn = 0 => error = "none"
       /\ error \in ConnectOutcomes

C4_Witness ==
    /\ phase = "built"
    /\ nconn >= 1
    /\ config.will_message_topic = Some("will/t")
    /\ config.will_message_payload = Some("bye")
    /\ config.will_delay_interval = None
    /\ client._will_message = None

----------------------------------------------------------------------------
(* C5 *)

\* C5: in every connection() call, reconnect_retries is applied (one
\* set_config call carrying the configured value, before the connect call)
\* exactly when it is present, 0 included, and likewise reconnect_delay,
\* each independently of the other.
C5_ReconnectApplied ==
    \A i \in ConnectIdx :
       /\ config.reconnect_retries # None <=>
             \E j \in SetConfigBefore(i, "reconnect_retries") :
                calls[j].args[2] = config.reconnect_retries[1]
       /\ config.reconnect_delay # None <=>
             \E j \in SetConfigBefore(i, "reconnect_delay") :
                calls[j].args[2] = config.reconnect_delay[1]

----------------------------------------------------------------------------
(* C10 *)

\* C10: every connection() call makes exactly one connect call, with the
\* configured host, port, ssl and keepalive, and with the configured
\* version, or MQTTv50 when the configuration gives none; without
\* credentials no set_auth_credentials call is made.
C10_ConnectArguments ==
    /\ Cardinality(ConnectIdx) = nconn
    /\ \A i \in ConnectIdx :
          calls[i].args =
             <<config.host, config.port, config.ssl, config.keepalive,
               IF config.version = None THEN MQTTv50 ELSE config.version[1]>>
    /\ (config.username = None /\ config.password = None) =>
          CallIdx("set_auth_credentials") = {}

C10_Witness ==
    /\ nconn = 1
    /\ config.username = None
    /\ config.password = None
    /\ config.version = None
    /\ config.host = "localhost"
    /\ calls[Len(calls)] = Call("connect", <<"localhost", 1883, FALSE, 60, MQTTv50>>)

----------------------------------------------------------------------------
(* C6, C9 *)

Delivered == Len(events') = Len(events) + 1

\* C6: in every step, each kind's slot holds the handler most recently
\* registered for that kind; a step that registers nothing for a kind leaves
\* that kind's slot as it was; and an event delivered for a kind with a
\* registered handler invokes exactly the most recently registered one.
C6_LatestHandlerOnly ==
    [][/\ \A k \in Kinds :
             /\ registered'[k] # <<>> =>
                   client'.callbacks[k] = Last(registered'[k])
             /\ registered'[k] = registered[k] =>
                   client'.callbacks[k] = client.callbacks[k]
       /\ Len(events') # Len(events) =>
             /\ Delivered
             /\ LET e == Last(events') IN
                   registered[e.kind] # <<>> =>
                      e.handler = Last(registered[e.kind])
      ]_vars

C6_Witness ==
    /\ registered["message"] = <<"h1", "h2">>
    /\ registered["connect"] = <<"h1">>
    /\ events # <<>>
    /\ Last(events) = [kind |-> "message", handler |-> "h2", raised |-> FALSE]

\* C9: an event delivered for a kind with no registered handler raises
\* nothing, runs the engine's empty callback, and leaves the client's
\* attributes, its callback slots and the configuration unchanged.
C9_UnregisteredEventIsNoOp ==
    [][(Delivered /\ registered[Last(events').kind] = <<>>) =>
          /\ ~Last(events').raised
          /\ Last(events').handler = EmptyCallback
          /\ client' = client
          /\ config' = config
          /\ registered' = registered
      ]_vars

C9_Witness ==
    /\ events # <<>>
    /\ registered["message"] = <<>>
    /\ Last(events) = [kind |-> "message", handler |-> EmptyCallback,
                       raised |-> FALSE]

----------------------------------------------------------------------------
(* C1, C7, C8 *)

OpsOf(op) == {i \in 1..Len(ops) : ops[i].op = op}

Awaited(i) == ops[i].got # "pending"

\* C1: every awaited publish has had the client's publish run exactly once
\* in the pool with exactly the arguments given, and the caller has received
\* what that call produced.
C1_PublishDispatched ==
    \A i \in OpsOf("publish") :
       Awaited(i) =>
          /\ ops[i].submitted
          /\ ops[i].ran = 1
          /\ ops[i].got = ops[i].behaviour
          /\ \E j \in CallIdx("publish") : calls[j].args = ops[i].args

\* C7: for publish and unsubscribe alike, when the client's synchronous call
\* raises, the awaiting caller receives that same exception, the call having
\* been attempted exactly once.
C7_ExceptionPassThrough ==
    \A i \in 1..Len(ops) :
       (Awaited(i) /\ ops[i].behaviour # "returned") =>
          /\ ops[i].got = ops[i].behaviour
          /\ ops[i].ran = 1

\* the unsubscribe half of C7 on its own
C7_UnsubscribeOnly ==
    \A i \in OpsOf("unsubscribe") :
       (Awaited(i) /\ ops[i].behaviour # "returned") =>
          /\ ops[i].got = ops[i].behaviour
          /\ ops[i].ran = 1

\* nothing is left for the pool or the loop to do
Quiescent ==
    \A i \in 1..Len(ops) :
       ops[i].submitted => (ops[i].ran = 1 /\ ops[i].got # "pending")

\* C8: once the shutdown hook has run and the pool and the loop have nothing
\* left to do, every publish called before the shutdown has had its future
\* fulfilled or its task completed by the pool.
C8_NoDroppedPublish ==
    (shutdown /\ Quiescent) =>
       \A i \in OpsOf("publish") :
          ops[i].got = "returned" \/ ops[i].ran = 1

\* the same statement for unsubscribe
C8_NoDroppedUnsubscribe ==
    (shutdown /\ Quiescent) =>
       \A i \in OpsOf("unsubscribe") :
          ops[i].got = "returned" \/ ops[i].ran = 1

====
